---- MODULE Spec2Model ----
(***************************************************************************)
(* Model of jaidegui/gui.py (class JaideGUI): the job supervisor (go,      *)
(* get_output, stop_script), the input validation, and the worker it       *)
(* starts.  Text held by entry widgets is a sequence of one-character      *)
(* strings; checkboxes hold 0 or 1.                                        *)
(***************************************************************************)
EXTENDS Integers, Sequences, FiniteSets, TLC

(***************************************************************************)
(* Bounds of the model.                                                    *)
(***************************************************************************)
\* the jobs started and the presses of Stop Script in a behaviour of Spec,
\* where jobs overlap
MaxJobs == 2
MaxStops == 2
\* the same in the other specifications
RunJobs == 1
RunStops == 2
\* the presses of Stop Script in a behaviour of FairSpec
FairStops == 1
MaxNotices == 2

(***************************************************************************)
(* Text helpers: Python str methods used by the handlers.                  *)
(***************************************************************************)
Digit == {"0", "1", "2", "3", "4", "5", "6", "7", "8", "9"}
Whitespace == {" ", "\n", "\t"}

RECURSIVE LStrip(_)
LStrip(s) == IF s # <<>> /\ Head(s) \in Whitespace THEN LStrip(Tail(s)) ELSE s

RECURSIVE RStrip(_)
RStrip(s) ==
    IF s # <<>> /\ s[Len(s)] \in Whitespace
    THEN RStrip(SubSeq(s, 1, Len(s) - 1))
    ELSE s

\* str.strip()
Strip(s) == LStrip(RStrip(s))

\* str.split(c) for a one-character separator: the list of pieces
RECURSIVE SplitAt(_, _, _)
SplitAt(s, c, cur) ==
    IF s = <<>> THEN <<cur>>
    ELSE IF Head(s) = c THEN <<cur>> \o SplitAt(Tail(s), c, <<>>)
    ELSE SplitAt(Tail(s), c, Append(cur, Head(s)))

RECURSIVE KeepLines(_)
KeepLines(ls) ==
    IF ls = <<>> THEN <<>>
    ELSE LET l == Strip(Head(ls)) IN
         IF l = <<>> \/ Head(l) = "#" THEN KeepLines(Tail(ls))
         ELSE <<l>> \o KeepLines(Tail(ls))

\* jaide.utils.clean_lines on a string that is not a file path: the comma
\* separated items, stripped, blank items and comments skipped
clean_lines(s) == KeepLines(SplitAt(s, ",", <<>>))

\* int(text): optional surrounding whitespace, optional sign, digits
IsInt(s) ==
    LET t == Strip(s)
        d == IF t # <<>> /\ Head(t) \in {"+", "-"} THEN Tail(t) ELSE t
    IN d # <<>> /\ \A i \in 1..Len(d) : d[i] \in Digit

DigitVal(c) ==
    CASE c = "0" -> 0 [] c = "1" -> 1 [] c = "2" -> 2 [] c = "3" -> 3
      [] c = "4" -> 4 [] c = "5" -> 5 [] c = "6" -> 6 [] c = "7" -> 7
      [] c = "8" -> 8 [] OTHER -> 9

RECURSIVE NatVal(_)
NatVal(d) ==
    IF d = <<>> THEN 0
    ELSE 10 * NatVal(SubSeq(d, 1, Len(d) - 1)) + DigitVal(d[Len(d)])

IntVal(s) ==
    LET t == Strip(s) IN
    IF Head(t) = "-" THEN 0 - NatVal(Tail(t))
    ELSE IF Head(t) = "+" THEN NatVal(Tail(t))
    ELSE NatVal(t)

\* re.match(r'([0-2]\d)(:[0-5]\d){1,2}', s): anchored at the start only
MatchTime(s) ==
    /\ Len(s) >= 5
    /\ s[1] \in {"0", "1", "2"} /\ s[2] \in Digit
    /\ s[3] = ":" /\ s[4] \in {"0", "1", "2", "3", "4", "5"} /\ s[5] \in Digit

\* re.match(r'\d{4}-[01]\d-[0-3]\d [0-2]\d:[0-5]\d(:[0-5]\d)?', s)
MatchDateTime(s) ==
    /\ Len(s) >= 16
    /\ \A i \in 1..4 : s[i] \in Digit
    /\ s[5] = "-" /\ s[6] \in {"0", "1"} /\ s[7] \in Digit
    /\ s[8] = "-" /\ s[9] \in {"0", "1", "2", "3"} /\ s[10] \in Digit
    /\ s[11] = " " /\ s[12] \in {"0", "1", "2"} /\ s[13] \in Digit
    /\ s[14] = ":" /\ s[15] \in {"0", "1", "2", "3", "4", "5"}
    /\ s[16] \in Digit

(***************************************************************************)
(* Tables of JaideGUI.__init__.                                            *)
(***************************************************************************)
yes_options ==
    {"Operational Command(s)", "Set Command(s)", "Shell Command(s)",
     "SCP Files", "Diff Config", "Show | Compare"}

no_options == {"Interface Errors", "Health Check", "Device Info"}

option_conversion ==
    [o \in yes_options \cup no_options |->
        CASE o = "Diff Config" -> "wrap.diff_config"
          [] o = "Device Info" -> "wrap.device_info"
          [] o = "Health Check" -> "wrap.health_check"
          [] o = "Interface Errors" -> "wrap.interface_errors"
          [] o = "Operational Command(s)" -> "wrap.command"
          [] o = "SCP Files" -> "wrap.push"
          [] o = "Set Command(s)" -> "wrap.commit"
          [] o = "Shell Command(s)" -> "wrap.shell"
          [] OTHER -> "wrap.compare"]


(***************************************************************************)
(* State.                                                                  *)
(*   widgets        the input widgets' contents (entries, checkboxes,      *)
(*                  option variables), by attribute name                   *)
(*   go_button ...  the state option of the four action buttons            *)
(*   output_area    the blocks of text inserted in the output Text widget  *)
(*   stdout_queue   self.stdout_queue, the Queue the workers put into      *)
(*   thread         self.thread: 0 for the initial "", else the index in   *)
(*                  workers of the WorkerThread go() created last          *)
(*   workers        every WorkerThread created so far, in creation order   *)
(*   pc             the controller's position inside get_output()          *)
(*   pending        the number of get_output callbacks scheduled by after  *)
(*   dialog         the title of the tkMessageBox shown, or "none"         *)
(*   help_value     the option whose help text help_label shows            *)
(*   pushed         history: every chunk put into stdout_queue, in order   *)
(*   tick_start     history: inside a tick of get_output, the lengths of   *)
(*                  stdout_queue and of pushed when the tick began         *)
(*   raised         the exceptions that have left a handler, which Tk      *)
(*                  reports and the main loop survives                     *)
(***************************************************************************)
VARIABLES widgets, go_button, stop_button, clear_button, save_button,
          output_area, stdout_queue, thread, workers, pc, pending, dialog,
          help_value, pushed, tick_start, raised, disk, process

vars == <<widgets, go_button, stop_button, clear_button, save_button,
          output_area, stdout_queue, thread, workers, pc, pending, dialog,
          help_value, pushed, tick_start, raised, disk, process>>

buttons == <<go_button, stop_button, clear_button, save_button>>

\* Texts used as field contents
Empty == <<>>
TimeoutDefault == <<"3", "0", "0">>
ConnTimeoutDefault == <<"5">>
PortDefault == <<"2", "2">>
ConfirmedMinDefault == <<"[", "1", "-", "6", "0", "]">>
AtTimeDefault ==
    <<"[", "y", "y", "y", "y", "-", "m", "m", "-", "d", "d", " ", "]",
      "h", "h", ":", "m", "m", "[", ":", "s", "s", "]">>

\* The widgets as JaideGUI.__init__ creates them
InitialWidgets ==
    [ip_entry |-> Empty,
     timeout_entry |-> TimeoutDefault,
     conn_timeout_entry |-> ConnTimeoutDefault,
     username_entry |-> Empty,
     password_entry |-> Empty,
     port_entry |-> PortDefault,
     wtf_entry |-> Empty,
     wtf_checkbox |-> 0,
     wtf_radiobuttons |-> "s",
     option_value |-> "Diff Config",
     option_entry |-> Empty,
     format_box |-> 0,
     scp_direction_value |-> "Push",
     scp_dest_entry |-> Empty,
     commit_check_button |-> 0,
     commit_blank |-> 0,
     commit_confirmed_button |-> 0,
     commit_confirmed_min_entry |-> ConfirmedMinDefault,
     commit_synch |-> 0,
     commit_comment |-> 0,
     commit_comment_entry |-> Empty,
     commit_at |-> 0,
     commit_at_entry |-> AtTimeDefault,
     diff_config_mode |-> "Set"]

(***************************************************************************)
(* The output area.  A block of text is a record: its kind, for a chunk    *)
(* of a worker the job and host it belongs to, and whether it ends with a  *)
(* newline.                                                                *)
(***************************************************************************)
Block(kind, nl) == [kind |-> kind, job |-> 0, host |-> 0, nl |-> nl]

StartMarker == Block("start", TRUE)
DoneMarker == Block("done", TRUE)
StopNotice == Block("stopping", FALSE)

\* write_to_output_area: the text gets a final newline when it has none,
\* and is inserted at the end
write_to_output_area(area, output) == Append(area, [output EXCEPT !.nl = TRUE])

\* the same block, whatever its final newline


(***************************************************************************)
(* input_validation: the title of the message box it shows, "ok" when      *)
(* every check passes.                                                     *)
(***************************************************************************)
\* Validation without the check of the Write to file destination
ValidationNoDestination(w) ==
    IF w.ip_entry = Empty THEN "IP Entry"
    ELSE IF Empty \in {w.username_entry, w.password_entry} THEN "Credentials"
    ELSE IF ~IsInt(w.timeout_entry) THEN "Timeout"
    ELSE "ok"

\* Validation without the int() of the Confirmed Minutes entry
ValidationNoConfirmed(w) ==
    IF w.ip_entry = Empty THEN "IP Entry"
    ELSE IF Empty \in {w.username_entry, w.password_entry} THEN "Credentials"
    ELSE IF w.wtf_entry = Empty /\ w.wtf_checkbox # 0 THEN "Write to File"
    ELSE IF /\ w.option_value \in yes_options
            /\ w.option_entry = Empty
            /\ w.commit_blank = 0
         THEN "Option Input"
    ELSE IF ~IsInt(w.timeout_entry) THEN "Timeout"
    ELSE "ok"

Validation(w) ==
    IF w.ip_entry = Empty THEN "IP Entry"
    ELSE IF Empty \in {w.username_entry, w.password_entry} THEN "Credentials"
    ELSE IF w.wtf_entry = Empty /\ w.wtf_checkbox # 0 THEN "Write to File"
    ELSE IF /\ w.option_value \in yes_options
            /\ w.option_entry = Empty
            /\ w.commit_blank = 0
         THEN "Option Input"
    ELSE IF /\ w.option_value = "Set Command(s)" /\ w.commit_at # 0
            /\ \/ w.commit_at_entry = Empty
               \/ ~MatchTime(w.commit_at_entry) /\ ~MatchDateTime(w.commit_at_entry)
         THEN "Commit At Time"
    ELSE IF /\ w.option_value = "Set Command(s)" /\ w.commit_comment # 0
            /\ \/ w.commit_comment_entry = Empty
               \/ \E i \in 1..Len(w.commit_comment_entry) :
                      w.commit_comment_entry[i] = "\""
         THEN "Commit Comment"
    ELSE IF /\ w.option_value = "Set Command(s)"
            /\ w.commit_confirmed_button # 0
            /\ ~IsInt(w.commit_confirmed_min_entry)
         THEN "Commit Confirmed"
    ELSE IF ~IsInt(w.timeout_entry) THEN "Timeout"
    ELSE "ok"

input_validation(w) == Validation(w) = "ok"

(***************************************************************************)
(* go: what it reads from the widgets to build the WorkerThread.           *)
(***************************************************************************)
None == <<>>
Some(x) == <<x>>

multi(w) == Len(clean_lines(w.ip_entry)) > 1

command(w) ==
    IF /\ w.scp_direction_value = "Pull"
       /\ option_conversion[w.option_value] = "wrap.push"
    THEN "wrap.pull"
    ELSE option_conversion[w.option_value]

out_fmt(w) == IF w.format_box # 0 THEN "xml" ELSE "text"
at_time(w) == IF w.commit_at # 0 THEN Some(w.commit_at_entry) ELSE None
\* confirmed without the conversion of minutes to seconds
confirmed_minutes(w) ==
    IF w.commit_confirmed_button # 0
    THEN Some(IntVal(w.commit_confirmed_min_entry))
    ELSE None

confirmed(w) ==
    IF w.commit_confirmed_button # 0
    THEN Some(IntVal(w.commit_confirmed_min_entry) * 60)
    ELSE None
comment(w) == IF w.commit_comment # 0 THEN Some(w.commit_comment_entry) ELSE None

Lower(m) == IF m = "Set" THEN "set" ELSE IF m = "Stanza" THEN "stanza" ELSE m

\* args_translation with comment and confirmed in each other's place
args_translation_swapped(w) ==
    [o \in yes_options \cup no_options |->
        CASE o = "Operational Command(s)" ->
                <<Strip(w.option_entry), out_fmt(w), FALSE>>
          [] o = "Diff Config" ->
                <<Strip(w.option_entry), Lower(w.diff_config_mode)>>
          [] o = "Set Command(s)" ->
                <<Strip(w.option_entry), w.commit_check_button, w.commit_synch,
                  confirmed(w), comment(w), at_time(w), w.commit_blank>>
          [] o = "SCP Files" ->
                <<Strip(w.option_entry), w.scp_dest_entry, FALSE, multi(w)>>
          [] o \in {"Shell Command(s)", "Show | Compare"} ->
                <<Strip(w.option_entry)>>
          [] OTHER -> <<>>]

args_translation(w) ==
    [o \in yes_options \cup no_options |->
        CASE o = "Operational Command(s)" ->
                <<Strip(w.option_entry), out_fmt(w), FALSE>>
          [] o = "Diff Config" ->
                <<Strip(w.option_entry), Lower(w.diff_config_mode)>>
          [] o = "Set Command(s)" ->
                <<Strip(w.option_entry), w.commit_check_button, w.commit_synch,
                  comment(w), confirmed(w), at_time(w), w.commit_blank>>
          [] o = "SCP Files" ->
                <<Strip(w.option_entry), w.scp_dest_entry, FALSE, multi(w)>>
          [] o \in {"Shell Command(s)", "Show | Compare"} ->
                <<Strip(w.option_entry)>>
          [] OTHER -> <<>>]

\* go raises before it creates the worker: an option that is no key of
\* option_conversion, int() of the confirmed minutes, or the get() of an
\* integer entry that holds no integer
GoRaises(w) ==
    \/ w.option_value \notin DOMAIN option_conversion
    \/ w.commit_confirmed_button # 0 /\ ~IsInt(w.commit_confirmed_min_entry)
    \/ ~IsInt(w.conn_timeout_entry)
    \/ ~IsInt(w.port_entry)

\* the exception go raises then
GoError(w) ==
    IF w.option_value \notin DOMAIN option_conversion THEN "KeyError"
    ELSE "ValueError"

\* the destination passed whatever the check box
write_to_file_always(w) == w.wtf_entry

\* only pass the value of the write_to_file entry if wtf is checked
write_to_file(w) == IF w.wtf_checkbox # 0 THEN w.wtf_entry ELSE Empty

\* the keyword arguments of WorkerThread(...), stdout apart
JobOf(w) ==
    [argsToPass |-> args_translation(w)[w.option_value],
     sess_timeout |-> IntVal(w.timeout_entry),
     conn_timeout |-> IntVal(w.conn_timeout_entry),
     port |-> IntVal(w.port_entry),
     command |-> command(w),
     ip |-> w.ip_entry,
     username |-> Strip(w.username_entry),
     password |-> Strip(w.password_entry),
     write_to_file |-> write_to_file(w),
     wtf_style |-> w.wtf_radiobuttons]

(***************************************************************************)
(* Template files.  A text is a sequence of symbols: a character, or a     *)
(* field name, an option name or the separator ':~:' taken as one symbol.  *)
(* A file is the sequence of its lines, each with its line terminator.     *)
(***************************************************************************)
Sep == ":~:"

template_opts ==
    ("IP" :> "ip_entry") @@
    ("Timeout" :> "timeout_entry") @@
    ("Username" :> "username_entry") @@
    ("Password" :> "password_entry") @@
    ("WriteToFileBool" :> "wtf_checkbox") @@
    ("WriteToFileLoc" :> "wtf_entry") @@
    ("SingleOrMultipleFiles" :> "wtf_radiobuttons") @@
    ("Option" :> "option_value") @@
    ("FirstArgument" :> "option_entry") @@
    ("SCPDest" :> "scp_dest_entry") @@
    ("SCPDirection" :> "scp_direction_value") @@
    ("CommitCheck" :> "commit_check_button") @@
    ("CommitConfirmed" :> "commit_confirmed_button") @@
    ("CommitConfirmedMin" :> "commit_confirmed_min_entry") @@
    ("CommitBlank" :> "commit_blank") @@
    ("CommitAt" :> "commit_at") @@
    ("CommitAtTime" :> "commit_at_entry") @@
    ("CommitComment" :> "commit_comment") @@
    ("CommitCommentValue" :> "commit_comment_entry") @@
    ("CommitSynch" :> "commit_synch") @@
    ("Format" :> "format_box") @@
    ("DiffMode" :> "diff_config_mode")

\* the order in which save_template finds the keys of template_opts
TemplateKeys ==
    <<"IP", "Timeout", "Username", "Password",
      "WriteToFileBool", "WriteToFileLoc", "SingleOrMultipleFiles", "Option",
      "FirstArgument", "SCPDest", "SCPDirection", "CommitCheck",
      "CommitConfirmed", "CommitConfirmedMin", "CommitBlank", "CommitAt",
      "CommitAtTime", "CommitComment", "CommitCommentValue", "CommitSynch",
      "Format", "DiffMode">>

CheckboxFields ==
    {"wtf_checkbox", "commit_check_button", "commit_confirmed_button",
     "commit_blank", "commit_at", "commit_comment", "commit_synch",
     "format_box"}

\* the widgets on a Tkinter StringVar with a menu or radio buttons
ChoiceFields ==
    {"wtf_radiobuttons", "option_value", "scp_direction_value",
     "diff_config_mode"}

IntegerFields == {"timeout_entry"}

\* base64 of a text, symbol by symbol; its alphabet has no separator and no
\* whitespace
B64 ==
    ("p" :> "cA") @@ ("s" :> "cw") @@ (" " :> "IA") @@ (":~:" :> "On46") @@
    ("u" :> "dQ") @@ ("\n" :> "Cg")

B64Symbols == {B64[c] : c \in DOMAIN B64}

\* the secret written as it is
b64plain(t) == t

b64encode(t) == [i \in 1..Len(t) |-> B64[t[i]]]

\* b64decode raises TypeError on a text that is no encoding
Decodable(t) == \A i \in 1..Len(t) : t[i] \in B64Symbols

b64decode(t) ==
    [i \in 1..Len(t) |-> CHOOSE c \in DOMAIN B64 : B64[c] = t[i]]

\* str(n) of an integer
DigitText(d) == <<"0", "1", "2", "3", "4", "5", "6", "7", "8", "9">>[d + 1]

RECURSIVE NatText(_)
NatText(n) ==
    IF n < 10 THEN <<DigitText(n)>>
    ELSE Append(NatText(n \div 10), DigitText(n % 10))

IntText(n) == IF n < 0 THEN <<"-">> \o NatText(0 - n) ELSE NatText(n)

\* the value a StringVar behind a menu holds after set(text)
AsChoice(text) == IF Len(text) = 1 THEN text[1] ELSE "(other)"

\* the value the IntVar of a checkbox holds after set(text)
AsCheck(text) == IF text = <<"1">> THEN 1 ELSE 0

\* widget.set(text)
SetWidget(w, field, text) ==
    IF field \in CheckboxFields THEN [w EXCEPT ![field] = AsCheck(text)]
    ELSE IF field \in ChoiceFields THEN [w EXCEPT ![field] = AsChoice(text)]
    ELSE [w EXCEPT ![field] = text]

\* line.split(':~:')
Pieces(line) == SplitAt(line, Sep, <<>>)

Applied(w) == [w |-> w, err |-> "none"]
Failed(w, e) == [w |-> w, err |-> e]

\* a loop body whose Option line also empties the argument entry
LoadLineSelecting(w, line) ==
    LET p == Pieces(line)
        key == p[1]
    IN IF key = <<"SingleOrMultipleFiles">>
       THEN IF Len(p) < 2 THEN Failed(w, "IndexError")
            ELSE Applied(SetWidget(w, "wtf_radiobuttons", RStrip(p[2])))
       ELSE IF key = <<"Password">>
       THEN IF Len(p) < 2 THEN Failed(w, "IndexError")
            ELSE IF ~Decodable(RStrip(p[2])) THEN Failed(w, "TypeError")
            ELSE Applied([w EXCEPT !.password_entry = b64decode(RStrip(p[2]))])
       ELSE IF Len(key) # 1 \/ key[1] \notin DOMAIN template_opts
       THEN Failed(w, "KeyError")
       ELSE IF Len(p) < 2 THEN Failed(w, "IndexError")
       ELSE IF key = <<"Option">>
       THEN Applied([SetWidget(w, "option_value", RStrip(p[2]))
                        EXCEPT !.option_entry = Empty])
       ELSE Applied(SetWidget(w, template_opts[key[1]], RStrip(p[2])))

\* the body of the loop of open_template for one line: the widgets after
\* it and the exception it raises, if any
LoadLine(w, line) ==
    LET p == Pieces(line)
        key == p[1]
    IN IF key = <<"SingleOrMultipleFiles">>
       THEN IF Len(p) < 2 THEN Failed(w, "IndexError")
            ELSE Applied(SetWidget(w, "wtf_radiobuttons", RStrip(p[2])))
       ELSE IF key = <<"Password">>
       THEN IF Len(p) < 2 THEN Failed(w, "IndexError")
            ELSE IF ~Decodable(RStrip(p[2])) THEN Failed(w, "TypeError")
            ELSE Applied([w EXCEPT !.password_entry = b64decode(RStrip(p[2]))])
       ELSE IF Len(key) # 1 \/ key[1] \notin DOMAIN template_opts
       THEN Failed(w, "KeyError")
       ELSE IF Len(p) < 2 THEN Failed(w, "IndexError")
       ELSE Applied(SetWidget(w, template_opts[key[1]], RStrip(p[2])))

\* the loop over readlines(): it ends at the first line that raises
RECURSIVE LoadLines(_, _)
LoadLines(w, lines) ==
    IF lines = <<>> THEN Applied(w)
    ELSE LET r == LoadLine(w, Head(lines))
         IN IF r.err # "none" THEN r ELSE LoadLines(r.w, Tail(lines))

\* str(value.get()), base64 for the password
SavedValue(w, key) ==
    LET field == template_opts[key]
    IN IF key = "Password" THEN b64encode(w[field])
       ELSE IF field \in CheckboxFields THEN IntText(w[field])
       ELSE IF field \in ChoiceFields THEN <<w[field]>>
       ELSE IF field \in IntegerFields THEN IntText(IntVal(w[field]))
       ELSE w[field]

SavedLine(w, key) == <<key, Sep>> \o SavedValue(w, key) \o <<"\n">>

\* value.get() raises for this key
SaveRaises(w, key) ==
    template_opts[key] \in IntegerFields /\ ~IsInt(w[template_opts[key]])

\* the lines save_template writes, up to the first key that raises
RECURSIVE SavedLines(_, _)
SavedLines(w, keys) ==
    IF keys = <<>> \/ SaveRaises(w, Head(keys)) THEN <<>>
    ELSE <<SavedLine(w, Head(keys))>> \o SavedLines(w, Tail(keys))

SaveFails(w) == \E i \in 1..Len(TemplateKeys) : SaveRaises(w, TemplateKeys[i])

(***************************************************************************)
(* The worker (WorkerThread).  It works through the hosts in order; done   *)
(* counts the hosts whose operation has returned.                          *)
(*   boundary  before the next host: the cancellation flag is read here    *)
(*   inflight  inside the blocking call for host done + 1                  *)
(*   exiting   nothing more to push, run() about to return                 *)
(*   dead      run() has returned: isAlive() is false                      *)
(* kdone and kphase are history: done and phase when the flag was set.     *)
(***************************************************************************)
NewWorker(job) ==
    [job |-> job,
     hosts |-> clean_lines(job.ip),
     done |-> 0,
     phase |-> IF clean_lines(job.ip) = <<>> THEN "exiting" ELSE "boundary",
     kill |-> FALSE,
     kdone |-> 0,
     kphase |-> "never",
     daemon |-> FALSE]

\* a thread started without thread.daemon = True
NotDetached(t) == t

\* self.thread.daemon = True
Detached(t) == [t EXCEPT !.daemon = TRUE]

isAlive(t) == t.phase # "dead"

Chunk(j, h, kind) == [kind |-> kind, job |-> j, host |-> h, nl |-> FALSE]

\* the operation callable on one host: it fails on the hosts that cannot be
\* reached, and returns output on the others
Unreachable == {<<"x">>}
Outcome(h) == IF h \in Unreachable THEN "err" ELSE "ok"

\* WorkerThread.kill_proc: the cooperative flag; nothing to do once the
\* run is over
kill_proc(t) ==
    IF isAlive(t) /\ ~t.kill
    THEN [t EXCEPT !.kill = TRUE, !.kdone = t.done, !.kphase = t.phase]
    ELSE t


(***************************************************************************)
(* Inputs of the operator, drawn from small sets.                          *)
(***************************************************************************)
HostA == <<"a">>
HostsAB == <<"a", ",", "b">>
HostsXA == <<"x", ",", "a">>
UserText == <<"u">>
SecretText == <<"p">>
PathText == <<"f">>

\* the ways to call go: the Run Script button, File > Run Script, Ctrl-R
EntryPoints == {"button", "menu", "key"}

\* what the operator types, and where
Typed ==
    {<<"ip_entry", HostA>>, <<"username_entry", UserText>>,
     <<"password_entry", SecretText>>, <<"wtf_entry", PathText>>}

\* the entries of the option menu the operator picks
Picked == {"Device Info", "Health Check"}

\* the number of times Stop Script was pressed, read off the output area
Stops ==
    Cardinality({i \in 1..Len(output_area) : output_area[i].kind = "stopping"})

NoTick == [q |-> 0, p |-> 0]
TickBegins == [q |-> Len(stdout_queue), p |-> Len(pushed)]

\* the handlers of the operator's actions run on the Tk thread: not inside a
\* tick of get_output, and not while a message box is open
OperatorFree == pc = "idle" /\ dialog = "none"

(***************************************************************************)
(* The state JaideGUI.__init__ leaves.  Without a defaults file the        *)
(* widgets are InitialWidgets; with one, open_template() has set the       *)
(* template fields and has called opt_select() on the option.              *)
(***************************************************************************)
Constructed(w) ==
    /\ widgets = w
    /\ go_button = "normal"
    /\ stop_button = "disabled"
    /\ clear_button = "disabled"
    /\ save_button = "disabled"
    /\ output_area = <<>>
    /\ stdout_queue = <<>>
    /\ thread = 0
    /\ workers = <<>>
    /\ pc = "idle"
    /\ pending = 0
    /\ dialog = "none"
    /\ help_value = w.option_value
    /\ pushed = <<>>
    /\ tick_start = NoTick
    /\ raised = {}
    /\ disk = None
    /\ process = "running"

\* a defaults file that names the hosts, the credentials and Device Info
DefaultsLoaded ==
    {[InitialWidgets EXCEPT !.ip_entry = h,
                            !.username_entry = UserText,
                            !.password_entry = SecretText,
                            !.option_value = "Device Info"] :
        h \in {HostA, HostsAB, HostsXA}}

Init == \E w \in DefaultsLoaded : Constructed(w)

InitInput == Constructed(InitialWidgets)

\* the defaults file names two hosts, the first of them unreachable
InitFair ==
    Constructed([InitialWidgets EXCEPT !.ip_entry = HostsXA,
                                       !.username_entry = UserText,
                                       !.password_entry = SecretText,
                                       !.option_value = "Device Info"])

(***************************************************************************)
(* Forms: contents of the widgets that a defaults file can leave behind,   *)
(* each with a host, a username and a password.                            *)
(***************************************************************************)
CommandText == <<" ", "c", " ">>
DestText == <<"d">>
NotANumber == <<"x">>

\* texts for the three integer entries
NumericTexts(default) == {default, NotANumber, Empty}

\* texts for the Confirmed Minutes entry
MinuteTexts ==
    {<<"5">>, <<"0">>, <<"6", "1">>, <<"-", "1">>,
     NotANumber, ConfirmedMinDefault}

\* texts for the At Time entry
TimeTexts ==
    {<<"1", "2", ":", "3", "0">>, <<"1", "2", ":", "3", "0", ":", "1", "5">>,
     <<"2", "0", "2", "6", "-", "0", "1", "-", "3", "1", " ", "2", "3", ":", "5", "9">>,
     <<"2", "5", ":", "0", "0">>, <<"1", "2", ":", "3", "0", "x">>,
     NotANumber, Empty}

\* texts for the Comment entry
CommentTexts == {<<"c">>, <<"c", "\"">>, Empty}

Filled ==
    [InitialWidgets EXCEPT !.ip_entry = HostA,
                           !.username_entry = UserText,
                           !.password_entry = SecretText,
                           !.option_value = "Device Info"]

\* the integer entries vary
NumericForms ==
    {[Filled EXCEPT !.timeout_entry = t, !.conn_timeout_entry = c,
                    !.port_entry = p] :
        t \in NumericTexts(TimeoutDefault),
        c \in NumericTexts(ConnTimeoutDefault),
        p \in NumericTexts(PortDefault)}

\* Set Command(s) with one of Confirmed Minutes, At Time and Comment checked
\* or none of them, and the texts of their entries
CommitForms ==
    LET base == [Filled EXCEPT !.option_value = "Set Command(s)",
                               !.option_entry = CommandText]
    IN {[base EXCEPT !.commit_confirmed_button = b,
                     !.commit_confirmed_min_entry = m] :
            b \in {0, 1}, m \in MinuteTexts}
       \cup {[base EXCEPT !.commit_at = b, !.commit_at_entry = t] :
                b \in {0, 1}, t \in TimeTexts}
       \cup {[base EXCEPT !.commit_comment = b, !.commit_comment_entry = t,
                          !.commit_synch = b] :
                b \in {0, 1}, t \in CommentTexts}
       \cup {[base EXCEPT !.commit_comment = 1,
                          !.commit_comment_entry = <<"c">>,
                          !.commit_confirmed_button = 1,
                          !.commit_confirmed_min_entry = m,
                          !.commit_synch = 1] :
                m \in {<<"5">>, NotANumber}}
       \cup {[base EXCEPT !.commit_check_button = c, !.commit_blank = b,
                          !.option_entry = e] :
                c \in {0, 1}, b \in {0, 1}, e \in {CommandText, Empty}}

\* the other options, with the widgets their argument bundles read
BundleForms ==
    {[Filled EXCEPT !.option_value = "Operational Command(s)",
                    !.option_entry = CommandText, !.format_box = f] :
        f \in {0, 1}}
    \cup {[Filled EXCEPT !.option_value = "Diff Config",
                         !.option_entry = CommandText,
                         !.diff_config_mode = m] :
             m \in {"Set", "Stanza"}}
    \cup {[Filled EXCEPT !.option_value = "SCP Files",
                         !.option_entry = CommandText,
                         !.scp_dest_entry = DestText,
                         !.scp_direction_value = d,
                         !.ip_entry = h] :
             d \in {"Push", "Pull"}, h \in {HostA, HostsAB}}
    \cup {[Filled EXCEPT !.option_value = o, !.option_entry = CommandText] :
             o \in {"Shell Command(s)", "Show | Compare"}}
    \cup {[Filled EXCEPT !.option_value = o] : o \in no_options}
    \cup {[Filled EXCEPT !.wtf_checkbox = c, !.wtf_entry = t] :
             c \in {0, 1}, t \in {PathText, Empty}}

Forms == NumericForms \cup CommitForms \cup BundleForms

InitForm == \E w \in Forms : Constructed(w)

\* Template files: four well-formed lines, and one more line that is not
\* well-formed at each of the five places
FieldLines ==
    <<(<<"IP", Sep, "b", "\n">>),
      (<<"Username", Sep, "v", "\n">>),
      (<<"Option", Sep, "Health Check", "\n">>),
      (<<"WriteToFileLoc", Sep, "f", "\n">>)>>

UnknownLine == <<"Bogus", Sep, "1", "\n">>
NoSeparatorLine == <<"g", "\n">>
BlankLine == <<"\n">>
OddLines == {UnknownLine, NoSeparatorLine, BlankLine}

\* seq with x as its element number i
InsertAt(seq, i, x) == SubSeq(seq, 1, i - 1) \o <<x>> \o SubSeq(seq, i, Len(seq))

Places == 1..(Len(FieldLines) + 1)

TemplateFiles ==
    {FieldLines} \cup {InsertAt(FieldLines, i, x) : i \in Places, x \in OddLines}

\* the files the operator can choose: the prepared ones and the one saved
FilesAtHand == TemplateFiles \cup {disk[i] : i \in 1..Len(disk)}

InitTemplate == \E w \in {InitialWidgets, Filled} : Constructed(w)

\* Records to save: texts with whitespace at an end or the separator inside,
\* an empty secret, and commit options the check boxes allow together
SpacedText == <<"u", " ">>
SeparatedText == <<"u", Sep, "v">>
SecretTexts == {SecretText, <<"p", " ">>, <<" ", "p">>, <<"p", Sep, "s">>, Empty}

CommitChosen ==
    [Filled EXCEPT !.option_value = "Set Command(s)",
                   !.option_entry = <<"c">>,
                   !.commit_check_button = 1]

StoreForms ==
    {[Filled EXCEPT !.username_entry = t] :
        t \in {UserText, SpacedText, SeparatedText}}
    \cup {[Filled EXCEPT !.password_entry = t] : t \in SecretTexts}
    \cup {CommitChosen}

InitStore == \E w \in StoreForms : Constructed(w)

\* a line whose value holds the separator
SeparatorInValue == <<(<<"Username", Sep, "u", Sep, "v", "\n">>)>>

\* well-formed lines of distinct fields, to be read in every order
LinesOf(option) ==
    <<(<<"Option", Sep, option, "\n">>),
      (<<"FirstArgument", Sep, "d", "\n">>),
      (<<"CommitCheck", Sep, "1", "\n">>)>>

Orders(n) == {p \in [1..n -> 1..n] : \A i, j \in 1..n : p[i] = p[j] => i = j}

Reordered(lines) ==
    {[i \in 1..Len(lines) |-> lines[p[i]]] : p \in Orders(Len(lines))}

\* the six commit options, and the Option line at each place among them
CommitLines ==
    <<(<<"CommitCheck", Sep, "0", "\n">>),
      (<<"CommitConfirmed", Sep, "1", "\n">>),
      (<<"CommitBlank", Sep, "0", "\n">>),
      (<<"CommitAt", Sep, "0", "\n">>),
      (<<"CommitComment", Sep, "1", "\n">>),
      (<<"CommitSynch", Sep, "1", "\n">>)>>

OptionSetLine == <<"Option", Sep, "Set Command(s)", "\n">>

CommitFiles ==
    {InsertAt(CommitLines, i, OptionSetLine) : i \in 1..(Len(CommitLines) + 1)}

OrderedFiles ==
    CommitFiles
    \cup Reordered(LinesOf("Set Command(s)"))
    \cup Reordered(LinesOf("Health Check"))

InitOrder == \E w \in {Filled, CommitChosen} : Constructed(w)

\* what the operator types between a save and a load
Retyped == {<<"port_entry", <<"2", "3">>>>, <<"username_entry", <<"w">>>>}

\* go that writes the start marker before it validates the input
go_marker_first(entry) ==
    /\ OperatorFree
    /\ entry = "button" => go_button = "normal"
    /\ IF ~input_validation(widgets)
       THEN /\ dialog' = Validation(widgets)
            /\ output_area' = write_to_output_area(output_area, StartMarker)
            /\ UNCHANGED <<process, disk, raised, tick_start, widgets, buttons,
                           stdout_queue, thread, workers, pc, pending,
                           help_value, pushed>>
       ELSE IF GoRaises(widgets)
       THEN /\ output_area' = write_to_output_area(output_area, StartMarker)
            /\ raised' = raised \cup {GoError(widgets)}
            /\ UNCHANGED <<process, disk, tick_start, widgets, buttons,
                           stdout_queue, thread, workers, pc, pending,
                           dialog, help_value, pushed>>
       ELSE /\ output_area' = write_to_output_area(output_area, StartMarker)
            /\ workers' = Append(workers, Detached(NewWorker(JobOf(widgets))))
            /\ thread' = Len(workers) + 1
            /\ go_button' = "disabled"
            /\ clear_button' = "disabled"
            /\ stop_button' = "normal"
            /\ save_button' = "disabled"
            /\ pc' = "read"
            /\ tick_start' = TickBegins
            /\ UNCHANGED <<process, disk, raised, widgets, stdout_queue, pending, dialog,
                           help_value, pushed>>

(***************************************************************************)
(* go(event).  The button calls it only while enabled; the menu entry and  *)
(* the key binding call it in any state.  With invalid input a message box *)
(* is shown and nothing else happens.  Otherwise the start marker is       *)
(* written, the worker is created and started, the buttons change and      *)
(* get_output() is entered.                                                *)
(***************************************************************************)
go(entry) ==
    /\ OperatorFree
    /\ entry = "button" => go_button = "normal"
    /\ IF ~input_validation(widgets)
       THEN /\ dialog' = Validation(widgets)
            /\ UNCHANGED <<process, disk, raised, tick_start, widgets, buttons, output_area,
                           stdout_queue, thread, workers, pc, pending,
                           help_value, pushed>>
       ELSE IF GoRaises(widgets)
       THEN /\ output_area' = write_to_output_area(output_area, StartMarker)
            /\ raised' = raised \cup {GoError(widgets)}
            /\ UNCHANGED <<process, disk, tick_start, widgets, buttons,
                           stdout_queue, thread, workers, pc, pending,
                           dialog, help_value, pushed>>
       ELSE /\ output_area' = write_to_output_area(output_area, StartMarker)
            /\ workers' = Append(workers, Detached(NewWorker(JobOf(widgets))))
            /\ thread' = Len(workers) + 1
            /\ go_button' = "disabled"
            /\ clear_button' = "disabled"
            /\ stop_button' = "normal"
            /\ save_button' = "disabled"
            /\ pc' = "read"
            /\ tick_start' = TickBegins
            /\ UNCHANGED <<process, disk, raised, widgets, stdout_queue, pending, dialog,
                           help_value, pushed>>

\* the operator closes the message box
Dismiss ==
    /\ dialog # "none"
    /\ dialog' = "none"
    /\ UNCHANGED <<process, disk, raised, tick_start, widgets, buttons, output_area,
                   stdout_queue, thread, workers, pc, pending, help_value,
                   pushed>>

(***************************************************************************)
(* get_output().  The worker runs in parallel with it, so the method is    *)
(* four steps: the read of one chunk, the isAlive() test, the final drain  *)
(* and the wrap-up.                                                        *)
(***************************************************************************)
\* a callback scheduled by after(100, self.get_output) fires
Tick ==
    /\ pc = "idle"
    /\ pending > 0
    /\ pending' = pending - 1
    /\ pc' = "read"
    /\ tick_start' = TickBegins
    /\ UNCHANGED <<process, disk, raised, widgets, buttons, output_area, stdout_queue, thread,
                   workers, dialog, help_value, pushed>>

\* try: write_to_output_area(stdout_queue.get_nowait()) except Queue.Empty
GetOutputRead ==
    /\ pc = "read"
    /\ IF stdout_queue # <<>>
       THEN /\ output_area' = write_to_output_area(output_area, Head(stdout_queue))
            /\ stdout_queue' = Tail(stdout_queue)
       ELSE UNCHANGED <<output_area, stdout_queue>>
    /\ pc' = "check"
    /\ UNCHANGED <<process, disk, raised, tick_start, widgets, buttons, thread, workers,
                   pending, dialog, help_value, pushed>>

\* if not self.thread.isAlive(): ... else self.after(100, self.get_output)
\* get_output with the test of isAlive() inverted
GetOutputCheckInverted ==
    /\ pc = "check"
    /\ IF ~isAlive(workers[thread])
       THEN pending' = pending + 1 /\ pc' = "idle" /\ tick_start' = NoTick
       ELSE pc' = "drain" /\ UNCHANGED <<pending, tick_start>>
    /\ UNCHANGED <<process, disk, raised, widgets, buttons, output_area, stdout_queue, thread,
                   workers, dialog, help_value, pushed>>

GetOutputCheck ==
    /\ pc = "check"
    /\ IF isAlive(workers[thread])
       THEN pending' = pending + 1 /\ pc' = "idle" /\ tick_start' = NoTick
       ELSE pc' = "drain" /\ UNCHANGED <<pending, tick_start>>
    /\ UNCHANGED <<process, disk, raised, widgets, buttons, output_area, stdout_queue, thread,
                   workers, dialog, help_value, pushed>>

\* while not stdout_queue.empty(): write_to_output_area(get_nowait())
GetOutputDrain ==
    /\ pc = "drain"
    /\ IF stdout_queue # <<>>
       THEN /\ output_area' = write_to_output_area(output_area, Head(stdout_queue))
            /\ stdout_queue' = Tail(stdout_queue)
            /\ UNCHANGED pc
       ELSE pc' = "finish" /\ UNCHANGED <<output_area, stdout_queue>>
    /\ UNCHANGED <<process, disk, raised, tick_start, widgets, buttons, thread, workers,
                   pending, dialog, help_value, pushed>>

\* a wrap-up that leaves Stop Script enabled
GetOutputFinishStopLeft ==
    /\ pc = "finish"
    /\ go_button' = "normal"
    /\ clear_button' = "normal"
    /\ save_button' = "normal"
    /\ output_area' = write_to_output_area(output_area, DoneMarker)
    /\ pc' = "idle"
    /\ tick_start' = NoTick
    /\ UNCHANGED <<process, disk, raised, widgets, stop_button, stdout_queue, thread,
                   workers, pending, dialog, help_value, pushed>>

\* the buttons, the completion marker, join() and return
GetOutputFinish ==
    /\ pc = "finish"
    /\ go_button' = "normal"
    /\ clear_button' = "normal"
    /\ stop_button' = "disabled"
    /\ save_button' = "normal"
    /\ output_area' = write_to_output_area(output_area, DoneMarker)
    /\ pc' = "idle"
    /\ tick_start' = NoTick
    /\ UNCHANGED <<process, disk, raised, widgets, stdout_queue, thread, workers, pending, dialog,
                   help_value, pushed>>

(***************************************************************************)
(* stop_script(): the command of the Stop Script button.                   *)
(***************************************************************************)
\* stop_script that writes its notice and does not call kill_proc()
stop_script_notice_only ==
    /\ OperatorFree
    /\ stop_button = "normal"
    /\ output_area' = write_to_output_area(output_area, StopNotice)
    /\ UNCHANGED <<process, disk, raised, tick_start, widgets, buttons, stdout_queue,
                   thread, workers, pc, pending, dialog, help_value, pushed>>

stop_script ==
    /\ OperatorFree
    /\ stop_button = "normal"
    /\ output_area' = write_to_output_area(output_area, StopNotice)
    /\ workers' = IF thread = 0 THEN workers
                  ELSE [workers EXCEPT ![thread] = kill_proc(workers[thread])]
    /\ UNCHANGED <<process, disk, raised, tick_start, widgets, buttons, stdout_queue,
                   thread, pc, pending, dialog, help_value, pushed>>

(***************************************************************************)
(* The operator's actions on the input widgets.                            *)
(***************************************************************************)
Cleared(w) ==
    [w EXCEPT !.ip_entry = Empty,
              !.timeout_entry = TimeoutDefault,
              !.username_entry = Empty,
              !.password_entry = Empty,
              !.wtf_entry = Empty,
              !.wtf_checkbox = 0,
              !.option_entry = Empty,
              !.scp_dest_entry = Empty,
              !.commit_comment_entry = Empty,
              !.commit_at_entry = Empty,
              !.commit_check_button = 0,
              !.commit_confirmed_button = 0,
              !.commit_blank = 0,
              !.commit_synch = 0,
              !.commit_at = 0,
              !.commit_comment = 0]

\* clear_fields when the workers hold the entries and read their text when
\* they need it, as they would had go() handed them the widgets and not the
\* widgets' values
clear_fields_shared ==
    /\ OperatorFree
    /\ widgets' = Cleared(widgets)
    /\ workers' = [j \in 1..Len(workers) |->
                      [workers[j] EXCEPT !.job.ip = Empty,
                                         !.job.username = Empty,
                                         !.job.password = Empty,
                                         !.job.write_to_file = Empty]]
    /\ UNCHANGED <<process, disk, raised, tick_start, buttons, output_area, stdout_queue,
                   thread, pc, pending, dialog, help_value, pushed>>

clear_fields ==
    /\ OperatorFree
    /\ widgets' = Cleared(widgets)
    /\ UNCHANGED <<process, disk, raised, tick_start, buttons, output_area, stdout_queue,
                   thread, workers, pc, pending, dialog, help_value, pushed>>

\* typing text v into the entry f
type_entry(f, v) ==
    /\ OperatorFree
    /\ widgets' = [widgets EXCEPT ![f] = v]
    /\ UNCHANGED <<process, disk, raised, tick_start, buttons, output_area, stdout_queue,
                   thread, workers, pc, pending, dialog, help_value, pushed>>

\* a click on the Write to file checkbox; check_wtf() then only shows or
\* hides the widgets beside it
check_wtf ==
    /\ OperatorFree
    /\ widgets' = [widgets EXCEPT !.wtf_checkbox = 1 - @]
    /\ UNCHANGED <<process, disk, raised, tick_start, buttons, output_area, stdout_queue,
                   thread, workers, pc, pending, dialog, help_value, pushed>>

\* opt_select(opt): the option menu has set option_value to opt.  The lookup
\* of the help text raises for the "------" entry, after option_value was set.
\* an opt_select that deselects the commit options for every option
OptSelectedAlways(w, opt) ==
    LET w1 == [w EXCEPT !.commit_check_button = 0,
                        !.commit_confirmed_button = 0,
                        !.commit_blank = 0,
                        !.commit_synch = 0,
                        !.commit_at = 0,
                        !.commit_comment = 0]
    IN IF opt = "------" THEN [w1 EXCEPT !.option_value = "Device Info"]
       ELSE w1

\* the selections after opt_select(opt)
OptSelected(w, opt) ==
    LET w1 == IF opt # "Set Command(s)"
              THEN [w EXCEPT !.commit_check_button = 0,
                             !.commit_confirmed_button = 0,
                             !.commit_blank = 0,
                             !.commit_synch = 0,
                             !.commit_at = 0,
                             !.commit_comment = 0]
              ELSE w
    IN IF opt = "------" THEN [w1 EXCEPT !.option_value = "Device Info"]
       ELSE w1

\* help_conversion has the nine operations as its keys
HelpRaises(opt) == opt \notin DOMAIN option_conversion

opt_select(opt) ==
    /\ OperatorFree
    /\ widgets' = OptSelected([widgets EXCEPT !.option_value = opt], opt)
    /\ help_value' = IF HelpRaises(opt) THEN help_value ELSE opt
    /\ raised' = IF HelpRaises(opt) THEN raised \cup {"KeyError"} ELSE raised
    /\ UNCHANGED <<process, disk, tick_start, buttons, output_area, stdout_queue,
                   thread, workers, pc, pending, dialog, pushed>>

(***************************************************************************)
(* Templates.  save_template writes one line per key of template_opts;     *)
(* open_template sets the widgets line by line, then calls opt_select and  *)
(* check_wtf.  Any exception of the loop or of opt_select ends the load    *)
(* and is written to the output area; what the lines before it set stays.  *)
(***************************************************************************)
OpenNotice == Block("could_not_open_file", FALSE)
\* "Could not open template. Error:" and the text of the exception
LoadNotice(e) ==
    Block(CASE e = "KeyError" -> "could_not_open_template_KeyError"
            [] e = "IndexError" -> "could_not_open_template_IndexError"
            [] OTHER -> "could_not_open_template_TypeError", FALSE)

LoadNotices == {LoadNotice(e) : e \in {"KeyError", "IndexError", "TypeError"}}

\* a load that puts the widgets back as they were when a line raises
LoadedOrRestored(w, lines) ==
    LET r == LoadLines(w, lines)
    IN IF r.err # "none" THEN Failed(w, r.err)
       ELSE IF HelpRaises(r.w.option_value)
            THEN Failed(OptSelected(r.w, r.w.option_value), "KeyError")
       ELSE Applied(OptSelected(r.w, r.w.option_value))

\* the widgets, the exception caught, after the try block of open_template
Loaded(w, lines) ==
    LET r == LoadLines(w, lines)
    IN IF r.err # "none" THEN r
       ELSE IF HelpRaises(r.w.option_value)
            THEN Failed(OptSelected(r.w, r.w.option_value), "KeyError")
       ELSE Applied(OptSelected(r.w, r.w.option_value))

open_template(lines) ==
    /\ OperatorFree
    /\ LET r == Loaded(widgets, lines)
       IN /\ widgets' = r.w
          /\ help_value' = IF r.err = "none" THEN r.w.option_value
                           ELSE help_value
          /\ output_area' =
                IF r.err = "none" THEN output_area
                ELSE write_to_output_area(output_area, LoadNotice(r.err))
    /\ UNCHANGED <<process, disk, raised, tick_start, buttons, stdout_queue, thread,
                   workers, pc, pending, dialog, pushed>>

\* a failed open that also empties the fields
open_template_unreadable_clearing ==
    /\ OperatorFree
    /\ output_area' = write_to_output_area(output_area, OpenNotice)
    /\ widgets' = Cleared(widgets)
    /\ UNCHANGED <<process, disk, raised, tick_start, buttons, stdout_queue,
                   thread, workers, pc, pending, dialog, help_value, pushed>>

\* open() of the template raises IOError
open_template_unreadable ==
    /\ OperatorFree
    /\ output_area' = write_to_output_area(output_area, OpenNotice)
    /\ UNCHANGED <<process, disk, raised, tick_start, widgets, buttons, stdout_queue,
                   thread, workers, pc, pending, dialog, help_value, pushed>>

\* save_template: when open() raises IOError the handler formats the
\* unassigned output_file, and UnboundLocalError leaves save_template
save_template(writable) ==
    /\ OperatorFree
    /\ IF ~writable
       THEN /\ raised' = raised \cup {"UnboundLocalError"}
            /\ UNCHANGED disk
       ELSE /\ disk' = Some(SavedLines(widgets, TemplateKeys))
            /\ raised' = IF SaveFails(widgets)
                         THEN raised \cup {"ValueError"} ELSE raised
    /\ UNCHANGED <<process, tick_start, widgets, buttons, output_area, stdout_queue,
                   thread, workers, pc, pending, dialog, help_value, pushed>>

(***************************************************************************)
(* The worker's steps.                                                     *)
(***************************************************************************)
\* at a host boundary: a cancelled worker pushes the cancellation notice and
\* stops iterating, another one enters the call for the next host
WorkerCheck(j) ==
    /\ j \in 1..Len(workers)
    /\ workers[j].phase = "boundary"
    /\ IF workers[j].kill
       THEN /\ stdout_queue' = Append(stdout_queue, Chunk(j, 0, "cancel"))
            /\ pushed' = Append(pushed, Chunk(j, 0, "cancel"))
            /\ workers' = [workers EXCEPT ![j].phase = "exiting"]
       ELSE /\ workers' = [workers EXCEPT ![j].phase = "inflight"]
            /\ UNCHANGED <<stdout_queue, pushed>>
    /\ UNCHANGED <<process, disk, raised, tick_start, widgets, buttons, output_area, thread,
                   pc, pending, dialog, help_value>>

\* the call for host done + 1 returns or fails: its output or its diagnostic
\* is pushed, and the next host is due
WorkerReturn(j) ==
    /\ j \in 1..Len(workers)
    /\ workers[j].phase = "inflight"
    /\ LET h == workers[j].done + 1
           c == Chunk(j, h, Outcome(workers[j].hosts[h]))
       IN /\ stdout_queue' = Append(stdout_queue, c)
          /\ pushed' = Append(pushed, c)
    /\ workers' = [workers EXCEPT
                      ![j].done = @ + 1,
                      ![j].phase = IF workers[j].done + 1 = Len(workers[j].hosts)
                                   THEN "exiting" ELSE "boundary"]
    /\ UNCHANGED <<process, disk, raised, tick_start, widgets, buttons, output_area, thread,
                   pc, pending, dialog, help_value>>

\* run() returns
WorkerExit(j) ==
    /\ j \in 1..Len(workers)
    /\ workers[j].phase = "exiting"
    /\ workers' = [workers EXCEPT ![j].phase = "dead"]
    /\ UNCHANGED <<process, disk, raised, tick_start, widgets, buttons, output_area,
                   stdout_queue, thread, pc, pending, dialog, help_value,
                   pushed>>

(***************************************************************************)
(* The commit check boxes.  A click toggles the box and then calls         *)
(* commit_option_update with the name of the box; the boxes are shown      *)
(* while Set Command(s) is the option.                                     *)
(***************************************************************************)
check_types ==
    ("check" :> "commit_check_button") @@
    ("blank" :> "commit_blank") @@
    ("confirmed" :> "commit_confirmed_button") @@
    ("synchronize" :> "commit_synch") @@
    ("comment" :> "commit_comment") @@
    ("at" :> "commit_at")

\* deselect() of each of the boxes
Deselected(w, boxes) == [f \in DOMAIN w |-> IF f \in boxes THEN 0 ELSE w[f]]

\* commit_option_update where Comment and Synchronize leave Check Only
commit_option_update_lenient(w, check_type) ==
    IF check_type = "blank" /\ w.commit_blank # 0
    THEN Deselected(w, {"commit_confirmed_button", "commit_check_button"})
    ELSE IF check_type = "check" /\ w.commit_check_button # 0
    THEN Deselected(w, {"commit_confirmed_button", "commit_blank",
                        "commit_at", "commit_synch", "commit_comment"})
    ELSE IF check_type = "confirmed" /\ w.commit_confirmed_button # 0
    THEN Deselected(w, {"commit_check_button", "commit_blank", "commit_at"})
    ELSE IF check_type = "at" /\ w.commit_at # 0
    THEN Deselected(w, {"commit_confirmed_button", "commit_blank",
                        "commit_check_button"})
    ELSE w

commit_option_update(w, check_type) ==
    IF check_type = "blank" /\ w.commit_blank # 0
    THEN Deselected(w, {"commit_confirmed_button", "commit_check_button"})
    ELSE IF check_type = "check" /\ w.commit_check_button # 0
    THEN Deselected(w, {"commit_confirmed_button", "commit_blank",
                        "commit_at", "commit_synch", "commit_comment"})
    ELSE IF check_type = "confirmed" /\ w.commit_confirmed_button # 0
    THEN Deselected(w, {"commit_check_button", "commit_blank", "commit_at"})
    ELSE IF check_type = "at" /\ w.commit_at # 0
    THEN Deselected(w, {"commit_confirmed_button", "commit_blank",
                        "commit_check_button"})
    ELSE IF check_type = "comment" /\ w.commit_comment # 0
    THEN Deselected(w, {"commit_check_button"})
    ELSE IF check_type = "synchronize" /\ w.commit_synch # 0
    THEN Deselected(w, {"commit_check_button"})
    ELSE w

\* the operator clicks a commit check box
click_commit(check_type) ==
    /\ OperatorFree
    /\ widgets.option_value = "Set Command(s)"
    /\ widgets' = commit_option_update(
                     [widgets EXCEPT ![check_types[check_type]] = 1 - @],
                     check_type)
    /\ UNCHANGED <<process, disk, raised, tick_start, buttons, output_area,
                   stdout_queue, thread, workers, pc, pending, dialog,
                   help_value, pushed>>

(***************************************************************************)
(* clear_output(event): the Clear Output button calls it only while        *)
(* enabled; File > Clear Output and Ctrl-W call it in any state.  It       *)
(* deletes the whole text of the output area.                              *)
(***************************************************************************)
clear_output(entry) ==
    /\ OperatorFree
    /\ entry = "button" => clear_button = "normal"
    /\ output_area' = <<>>
    /\ UNCHANGED <<process, disk, raised, tick_start, widgets, buttons,
                   stdout_queue, thread, workers, pc, pending, dialog,
                   help_value, pushed>>

(***************************************************************************)
(* quit(): sys.exit(0) in the handler ends mainloop() and main(); the      *)
(* interpreter then waits for the threads that are alive and not daemon:   *)
(* with none the process has exited, otherwise it is exiting.              *)
(***************************************************************************)
Running == process = "running"

Awaited == {j \in 1..Len(workers) : isAlive(workers[j]) /\ ~workers[j].daemon}

quit ==
    /\ Running
    /\ pc = "idle"
    /\ process' = IF Awaited = {} THEN "exited" ELSE "exiting"
    /\ UNCHANGED <<disk, raised, tick_start, widgets, buttons, output_area,
                   stdout_queue, thread, workers, pc, pending, dialog,
                   help_value, pushed>>

(***************************************************************************)
(* Specifications.  JobSteps are the steps of get_output() and of the      *)
(* workers; the operator's actions are bounded in number.                  *)
(***************************************************************************)
Started(n) == Len(workers') <= n
Stopped(n) == Stops < n
\* at most n start markers written, whether or not a worker was started
Marked(n) ==
    Cardinality({i \in 1..Len(output_area') :
                    output_area'[i].kind = "start"}) <= n

\* the job supervisor and the workers, jobs overlapping
Next ==
    \/ \E e \in EntryPoints : go(e) /\ Started(MaxJobs)
    \/ stop_script /\ Stopped(MaxStops)
    \/ Tick
    \/ GetOutputRead
    \/ GetOutputCheck
    \/ GetOutputDrain
    \/ GetOutputFinish
    \/ \E j \in 1..MaxJobs : WorkerCheck(j)
    \/ \E j \in 1..MaxJobs : WorkerReturn(j)
    \/ \E j \in 1..MaxJobs : WorkerExit(j)

Spec == Init /\ [][Next]_vars

\* the same with fewer jobs
NextRun ==
    \/ \E e \in EntryPoints : go(e) /\ Started(RunJobs)
    \/ stop_script /\ Stopped(RunStops)
    \/ Tick
    \/ GetOutputRead
    \/ GetOutputCheck
    \/ GetOutputDrain
    \/ GetOutputFinish
    \/ \E j \in 1..RunJobs : WorkerCheck(j)
    \/ \E j \in 1..RunJobs : WorkerReturn(j)
    \/ \E j \in 1..RunJobs : WorkerExit(j)

SpecRun == Init /\ [][NextRun]_vars

\* one job at a time, and Clear Output
NextOutput ==
    \/ \E e \in EntryPoints : go(e) /\ Started(RunJobs)
    \/ \E e \in EntryPoints : clear_output(e)
    \/ stop_script /\ Stopped(RunStops)
    \/ Tick
    \/ GetOutputRead
    \/ GetOutputCheck
    \/ GetOutputDrain
    \/ GetOutputFinish
    \/ \E j \in 1..RunJobs : WorkerCheck(j)
    \/ \E j \in 1..RunJobs : WorkerReturn(j)
    \/ \E j \in 1..RunJobs : WorkerExit(j)

SpecOutput == Init /\ [][NextOutput]_vars

\* one job at a time, and Quit: the handlers run while mainloop() runs, the
\* workers until the process has ended
NextQuit ==
    \/ \E e \in EntryPoints : Running /\ go(e) /\ Started(RunJobs)
    \/ Running /\ stop_script /\ Stopped(RunStops)
    \/ Running /\ Tick
    \/ Running /\ GetOutputRead
    \/ Running /\ GetOutputCheck
    \/ Running /\ GetOutputDrain
    \/ Running /\ GetOutputFinish
    \/ \E j \in 1..RunJobs : process # "exited" /\ WorkerCheck(j)
    \/ \E j \in 1..RunJobs : process # "exited" /\ WorkerReturn(j)
    \/ \E j \in 1..RunJobs : process # "exited" /\ WorkerExit(j)
    \/ quit

SpecQuit == Init /\ [][NextQuit]_vars

\* the same under fair scheduling: the timer fires and the handler runs to
\* its end; the worker's thread is scheduled and every call on a host returns
NextFair ==
    \/ \E e \in EntryPoints : go(e) /\ Started(RunJobs)
    \/ stop_script /\ Stopped(FairStops)
    \/ Tick
    \/ GetOutputRead
    \/ GetOutputCheck
    \/ GetOutputDrain
    \/ GetOutputFinish
    \/ \E j \in 1..RunJobs : WorkerCheck(j)
    \/ \E j \in 1..RunJobs : WorkerReturn(j)
    \/ \E j \in 1..RunJobs : WorkerExit(j)

FairRun ==
    /\ WF_vars(Tick)
    /\ WF_vars(GetOutputRead)
    /\ WF_vars(GetOutputCheck)
    /\ WF_vars(GetOutputDrain)
    /\ WF_vars(GetOutputFinish)
    /\ \A j \in 1..RunJobs :
          /\ WF_vars(WorkerCheck(j))
          /\ WF_vars(WorkerReturn(j))
          /\ WF_vars(WorkerExit(j))

FairSpec == InitFair /\ [][NextFair]_vars /\ FairRun

\* the operator's actions on the input widgets, from the state without
\* a defaults file
NextInput ==
    \/ \E e \in EntryPoints : go(e) /\ Started(RunJobs)
    \/ Dismiss
    \/ clear_fields
    \/ \E t \in Typed : type_entry(t[1], t[2])
    \/ check_wtf
    \/ \E o \in Picked : opt_select(o)
    \/ Tick
    \/ GetOutputRead
    \/ GetOutputCheck
    \/ GetOutputDrain
    \/ GetOutputFinish
    \/ \E j \in 1..RunJobs : WorkerCheck(j)
    \/ \E j \in 1..RunJobs : WorkerReturn(j)
    \/ \E j \in 1..RunJobs : WorkerExit(j)

SpecInput == InitInput /\ [][NextInput]_vars

\* one run from each of the forms
NextForm ==
    \/ \E e \in EntryPoints : go(e) /\ Started(RunJobs) /\ Marked(RunJobs)
    \/ Dismiss
    \/ Tick
    \/ GetOutputRead
    \/ GetOutputCheck
    \/ GetOutputDrain
    \/ GetOutputFinish
    \/ \E j \in 1..RunJobs : WorkerCheck(j)
    \/ \E j \in 1..RunJobs : WorkerReturn(j)
    \/ \E j \in 1..RunJobs : WorkerExit(j)

SpecForm == InitForm /\ [][NextForm]_vars

\* at most n notices of a failed load in the output area after the step
Noticed(n) ==
    Cardinality({i \in 1..Len(output_area') :
                    [output_area'[i] EXCEPT !.nl = FALSE]
                        \in LoadNotices \cup {OpenNotice}}) <= n

\* templates are loaded and saved while no job runs
NextTemplate ==
    \/ \E f \in FilesAtHand : open_template(f) /\ Noticed(MaxNotices)
    \/ open_template_unreadable /\ Noticed(MaxNotices)
    \/ \E ok \in BOOLEAN : save_template(ok)

SpecTemplate == InitTemplate /\ [][NextTemplate]_vars

\* records are saved, changed and loaded again
NextStore ==
    \/ \E ok \in BOOLEAN : save_template(ok)
    \/ \E f \in {SeparatorInValue} \cup {disk[i] : i \in 1..Len(disk)} :
          open_template(f)
    \/ \E t \in Retyped : type_entry(t[1], t[2])
    \/ \E o \in Picked \cup {"Set Command(s)"} : opt_select(o)

SpecStore == InitStore /\ [][NextStore]_vars

\* files of the same lines in different orders are loaded
NextOrder ==
    \/ \E f \in OrderedFiles : open_template(f)
    \/ \E t \in Retyped \cup {<<"option_entry", CommandText>>} :
          type_entry(t[1], t[2])
    \/ check_wtf
    \/ \E o \in Picked \cup {"Set Command(s)"} : opt_select(o)

SpecOrder == InitOrder /\ [][NextOrder]_vars

\* the commit options are clicked, between selections of the option and
\* changes of the form; all commit check boxes start unchecked
InitCommit == Constructed([Filled EXCEPT !.option_value = "Set Command(s)"])

NextCommit ==
    \/ \E t \in DOMAIN check_types : click_commit(t)
    \/ \E o \in Picked \cup {"Set Command(s)"} : opt_select(o)
    \/ \E t \in Retyped : type_entry(t[1], t[2])
    \/ check_wtf
    \/ clear_fields

SpecCommit == InitCommit /\ [][NextCommit]_vars

\* the entries of the option menu
options_list ==
    {"Diff Config", "Operational Command(s)", "SCP Files", "Set Command(s)",
     "Shell Command(s)", "Show | Compare", "------", "Device Info",
     "Health Check", "Interface Errors"}

\* files that name an option: alone, with a commit option, before a line
\* that is not well-formed, and one that names no option of the menu
OptionLine(option) == <<"Option", Sep, option, "\n">>

OptionFiles ==
    {<<OptionLine("Health Check")>>,
     <<OptionLine("Set Command(s)")>>,
     <<OptionLine("Health Check"), (<<"CommitCheck", Sep, "1", "\n">>)>>,
     <<(<<"CommitBlank", Sep, "1", "\n">>)>>,
     <<OptionLine("Health Check"), UnknownLine>>,
     <<OptionLine("Bogus")>>}

\* the option is selected, commit options are clicked, the fields are
\* cleared and templates are loaded
NextOption ==
    \/ \E o \in options_list : opt_select(o)
    \/ \E t \in DOMAIN check_types : click_commit(t)
    \/ clear_fields
    \/ \E f \in OptionFiles : open_template(f) /\ Noticed(MaxNotices)

SpecOption == InitCommit /\ [][NextOption]_vars



(***************************************************************************)
(* Properties.                                                             *)
(***************************************************************************)
AliveWorkers == {j \in 1..Len(workers) : isAlive(workers[j])}

IsChunk(b) == b.job # 0

\* the chunks written to the output area, in order
Rendered == SelectSeq(output_area, IsChunk)

\* a sequence of blocks, each with its final newline
Terminated(seq) == [i \in 1..Len(seq) |-> [seq[i] EXCEPT !.nl = TRUE]]

\* the chunks of job j among seq
OfJob(seq, j) == SelectSeq(seq, LAMBDA b : b.job = j)

\* nothing runs and nothing is scheduled
Quiescent == pc = "idle" /\ pending = 0 /\ AliveWorkers = {}

\* C1: at most one job is Running at any time: while the worker of
\* self.thread is alive no call of go() - from the button, the menu entry or
\* the key binding - creates a worker, and self.thread is not replaced.
C1_OneJobRunning ==
    /\ [](Cardinality(AliveWorkers) <= 1)
    /\ [][(thread # 0 /\ isAlive(workers[thread]))
            => Len(workers') = Len(workers) /\ thread' = thread]_vars

\* C2: when get_output() is about to write the completion marker and stop
\* polling, the output queue is empty and every chunk pushed so far has
\* been rendered.
C2_CompletionAfterChunks ==
    pc = "finish" => stdout_queue = <<>> /\ Rendered = Terminated(pushed)

\* C3: no chunk is lost or duplicated: the chunks handed to
\* write_to_output_area by the ticks are a prefix of the chunks pushed, the
\* rest being still queued, and once all the jobs are over and polling has
\* stopped they are all the chunks pushed, in the same order.
C3_NoChunkLost ==
    /\ Rendered \o Terminated(stdout_queue) = Terminated(pushed)
    /\ Quiescent => Rendered = Terminated(pushed)


\* a tick of get_output ends in this step, and no chunk was pushed since it
\* began
TickEndsUndisturbed == pc # "idle" /\ pc' = "idle" /\ Len(pushed) = tick_start.p

\* C4 as stated: every tick, also one on which the worker is still active,
\* renders all the chunks enqueued when it runs: with no push during the tick
\* the queue is empty after it.
C4_TickEmptiesQueue == [][TickEndsUndisturbed => stdout_queue' = <<>>]_vars

\* the terminal state of the controller: Run enabled, Stop disabled, no tick
\* running or scheduled
Terminal ==
    /\ pc = "idle"
    /\ pending = 0
    /\ go_button = "normal"
    /\ stop_button = "disabled"

\* C5: a tick schedules the next one exactly when it finds the worker alive;
\* once the worker of self.thread is dead the controller reaches the
\* terminal state, by the final drain and the wrap-up, and no tick is
\* scheduled for that worker any more.
C5_PollingStops ==
    /\ [][(pc = "check" /\ pc' # "check") =>
            /\ isAlive(workers[thread]) <=> pending' = pending + 1
            /\ isAlive(workers[thread]) <=> pc' = "idle"
            /\ ~isAlive(workers[thread]) <=> (pc' = "drain" /\ pending' = pending)]_vars
    /\ [][pending' > pending => pc = "check" /\ isAlive(workers[thread])]_vars
    /\ [][(pc # "finish" /\ pc' = "finish") => pc = "drain" /\ stdout_queue = <<>>]_vars
    /\ (thread # 0 /\ ~isAlive(workers[thread])) ~> Terminal

\* the job is over and was polled more than once
C5_Witness ==
    /\ Terminal
    /\ thread # 0
    /\ Len(output_area) > 0
    /\ output_area[Len(output_area)] = DoneMarker
    /\ Len(Rendered) = 2


StopPressed == output_area' = write_to_output_area(output_area, StopNotice)

\* C7 as stated: stop_script is idempotent and a no-op without a running
\* job: only the first call of a run, made while the worker is alive, changes
\* the state.
C7_StopIsNoOp ==
    [][StopPressed =>
          thread # 0 /\ isAlive(workers[thread]) /\ ~workers[thread].kill]_vars

\* the host-scoped sections and the cancellation notices job j has pushed
Sections(j) ==
    Len(SelectSeq(pushed, LAMBDA b : b.job = j /\ b.kind \in {"ok", "err"}))
Notices(j) ==
    Len(SelectSeq(pushed, LAMBDA b : b.job = j /\ b.kind = "cancel"))

\* C8: cancellation is honoured at the host boundaries only.  A call of
\* stop_script sets the flag of the running worker.  A worker cancelled
\* between hosts, k hosts done, pushes k sections and one notice, never more
\* sections; one cancelled inside the call for host k + 1 completes that
\* call, and pushes the notice if a host is left.
C8_CancelAtBoundary ==
    /\ [][StopPressed /\ thread # 0 /\ isAlive(workers[thread])
            => workers'[thread].kill]_vars
    /\ [](\A j \in 1..Len(workers) :
            LET t == workers[j]
                n == Len(t.hosts)
            IN /\ t.kphase = "boundary" => Sections(j) = t.kdone
               /\ t.kphase = "inflight" => Sections(j) <= t.kdone + 1
               /\ ~isAlive(t) =>
                    CASE t.kphase = "boundary" -> Notices(j) = 1
                      [] t.kphase = "inflight" ->
                            /\ Sections(j) = t.kdone + 1
                            /\ Notices(j) = IF t.kdone + 1 < n THEN 1 ELSE 0
                      [] OTHER -> Sections(j) = n /\ Notices(j) = 0)

\* a job of two hosts was cancelled after the first host and is over
C8_Witness ==
    \E j \in 1..Len(workers) :
        /\ ~isAlive(workers[j])
        /\ Len(workers[j].hosts) = 2
        /\ workers[j].kphase = "boundary"
        /\ workers[j].kdone = 1
        /\ Sections(j) = 1
        /\ Notices(j) = 1

\* the sections a job of these hosts produces when it is not cancelled
AllSections(j, hosts) ==
    [i \in 1..Len(hosts) |->
        [kind |-> Outcome(hosts[i]), job |-> j, host |-> i, nl |-> TRUE]]

\* C9: once everything is over, the rendered output of every job that was
\* not cancelled holds one section per host, in the order of the hosts, the
\* output of the host or its error diagnostic.
C9_AllHostsRendered ==
    Quiescent =>
        \A j \in 1..Len(workers) :
            ~workers[j].kill =>
                OfJob(Rendered, j) = AllSections(j, workers[j].hosts)

\* a host, a credential or the destination is missing
MissingInput(w) ==
    \/ w.ip_entry = Empty
    \/ w.username_entry = Empty
    \/ w.password_entry = Empty
    \/ w.wtf_checkbox # 0 /\ w.wtf_entry = Empty

\* C10: with an empty host field, an empty username or secret, or
\* write-to-file checked and an empty destination, input_validation returns
\* False, and no step creates or starts a worker.
C10_NoJobWithMissingInput ==
    /\ [](MissingInput(widgets) => ~input_validation(widgets))
    /\ [][MissingInput(widgets) =>
            /\ Len(workers') = Len(workers)
            /\ thread' = thread]_vars

\* go was refused for the destination, the host and the credentials given
C10_Witness ==
    /\ dialog = "Write to File"
    /\ widgets.ip_entry # Empty
    /\ widgets.username_entry # Empty
    /\ widgets.password_entry # Empty
    /\ workers = <<>>

\* this step creates a worker; the job it was created with
JobStarts == Len(workers') > Len(workers)
NewJob == workers'[Len(workers')].job
\* this step is a call of go that has passed input_validation
GoPasses == output_area' = write_to_output_area(output_area, StartMarker)

NonIntegerNumeric(w) ==
    \/ ~IsInt(w.timeout_entry)
    \/ ~IsInt(w.conn_timeout_entry)
    \/ ~IsInt(w.port_entry)

\* C11: when the session timeout, the connection timeout or the port is not
\* an integer, input_validation returns False and go starts no worker.
C11_NumericValidated ==
    [][NonIntegerNumeric(widgets) => ~GoPasses /\ ~JobStarts]_vars

ConfirmedChecked(w) ==
    w.option_value = "Set Command(s)" /\ w.commit_confirmed_button # 0

\* C12: with Set Command(s) and Confirmed Minutes checked, input_validation
\* returns False when the minutes are no integer, so go gets past the
\* validation, to its int() of the minutes, and starts a job only when they
\* are one.
C12_ConfirmedMinutesParsed ==
    /\ [](ConfirmedChecked(widgets) /\ ~IsInt(widgets.commit_confirmed_min_entry)
             => ~input_validation(widgets))
    /\ [][ConfirmedChecked(widgets) /\ (GoPasses \/ JobStarts)
             => IsInt(widgets.commit_confirmed_min_entry)]_vars
    /\ [][ConfirmedChecked(widgets) /\ IsInt(widgets.conn_timeout_entry)
             /\ IsInt(widgets.port_entry) => raised' = raised]_vars

\* go was refused for minutes that are no integer
C12_Witness ==
    /\ dialog = "Commit Confirmed"
    /\ ConfirmedChecked(widgets)
    /\ widgets.commit_confirmed_min_entry = NotANumber
    /\ workers = <<>>
    /\ output_area = <<>>

\* C13: with Set Command(s) and Confirmed Minutes checked, a job starts only
\* with minutes m, 1 <= m <= 60.
C13_ConfirmedMinutesInRange ==
    [][JobStarts /\ ConfirmedChecked(widgets)
          => /\ IsInt(widgets.commit_confirmed_min_entry)
             /\ IntVal(widgets.commit_confirmed_min_entry) \in 1..60]_vars

\* the formats of the claim: the whole text is hh:mm[:ss], the hour at most
\* 23, or yyyy-mm-dd, a space and such a time
ClockText(s) ==
    /\ Len(s) \in {5, 8}
    /\ \/ s[1] \in {"0", "1"} /\ s[2] \in Digit
       \/ s[1] = "2" /\ s[2] \in {"0", "1", "2", "3"}
    /\ s[3] = ":" /\ s[4] \in {"0", "1", "2", "3", "4", "5"} /\ s[5] \in Digit
    /\ Len(s) = 8 =>
          s[6] = ":" /\ s[7] \in {"0", "1", "2", "3", "4", "5"} /\ s[8] \in Digit

DateClockText(s) ==
    /\ Len(s) \in {16, 19}
    /\ \A i \in {1, 2, 3, 4, 6, 7, 9, 10} : s[i] \in Digit
    /\ s[5] = "-" /\ s[8] = "-" /\ s[11] = " "
    /\ ClockText(SubSeq(s, 12, Len(s)))

AtChecked(w) == w.option_value = "Set Command(s)" /\ w.commit_at # 0

\* C14: with Set Command(s) and At Time checked, input_validation returns
\* False and no job starts unless the whole At Time text has one of the two
\* formats.
C14_AtTimeWellFormed ==
    [][AtChecked(widgets) /\ (GoPasses \/ JobStarts)
          => \/ ClockText(widgets.commit_at_entry)
             \/ DateClockText(widgets.commit_at_entry)]_vars

\* C15: the bundle of a Set Command(s) job holds 60 times the minutes when
\* Confirmed Minutes is checked (300 for "5") and None otherwise, and the
\* texts of Comment and At Time when these are checked and None otherwise.
C15_CommitModifiers ==
    [][JobStarts /\ widgets.option_value = "Set Command(s)" =>
          LET a == NewJob.argsToPass
              w == widgets
          IN /\ Len(a) = 7
             /\ a[4] = IF w.commit_comment # 0
                       THEN <<w.commit_comment_entry>> ELSE <<>>
             /\ a[5] = IF w.commit_confirmed_button # 0
                       THEN <<60 * IntVal(w.commit_confirmed_min_entry)>>
                       ELSE <<>>
             /\ w.commit_confirmed_button # 0
                   /\ w.commit_confirmed_min_entry = <<"5">> => a[5] = <<300>>
             /\ a[6] = IF w.commit_at # 0
                       THEN <<w.commit_at_entry>> ELSE <<>>]_vars

\* a job confirmed in "5" minutes, with a comment and no At Time
C15_Witness ==
    \E j \in 1..Len(workers) :
        /\ workers[j].job.command = "wrap.commit"
        /\ workers[j].job.argsToPass[5] = <<300>>
        /\ workers[j].job.argsToPass[4] = <<(<<"c">>)>>
        /\ workers[j].job.argsToPass[6] = <<>>

\* the other direction of an SCP
Reverse(d) == IF d = "Pull" THEN "Push" ELSE "Pull"

\* the bundle of the table, the direction of a file transfer apart
TableBundle(w) ==
    LET text == Strip(w.option_entry)
        o == w.option_value
    IN CASE o = "Operational Command(s)" ->
               <<text, IF w.format_box # 0 THEN "xml" ELSE "text", FALSE>>
         [] o = "Diff Config" ->
               <<text, IF w.diff_config_mode = "Stanza" THEN "stanza" ELSE "set">>
         [] o = "Set Command(s)" ->
               <<text, w.commit_check_button, w.commit_synch,
                 IF w.commit_comment # 0
                 THEN <<w.commit_comment_entry>> ELSE <<>>,
                 IF w.commit_confirmed_button # 0
                 THEN <<60 * IntVal(w.commit_confirmed_min_entry)>> ELSE <<>>,
                 IF w.commit_at # 0 THEN <<w.commit_at_entry>> ELSE <<>>,
                 w.commit_blank>>
         [] o = "SCP Files" ->
               <<text, w.scp_dest_entry, FALSE,
                 Len(clean_lines(w.ip_entry)) > 1>>
         [] o = "Shell Command(s)" -> <<text>>
         [] o = "Show | Compare" -> <<text>>
         [] OTHER -> <<>>

\* C16 as stated: the bundle of a file transfer holds the direction, so the
\* bundles of a push and of a pull of the same files differ; for every other
\* operation the bundle is the one of the table.
C16_BundleAsTable ==
    [][JobStarts =>
          IF widgets.option_value = "SCP Files"
          THEN NewJob.argsToPass #
                  args_translation([widgets EXCEPT
                      !.scp_direction_value = Reverse(@)])["SCP Files"]
          ELSE NewJob.argsToPass = TableBundle(widgets)]_vars

\* C16, amended: the bundle of a file transfer is (source, destination,
\* False, multi-host flag) and does not hold the direction, which selects
\* the operation: pull for Pull, push otherwise.  For every other operation
\* the bundle is the one of the table.
C16_BundleAndOperation ==
    [][JobStarts =>
          /\ NewJob.argsToPass = TableBundle(widgets)
          /\ widgets.option_value = "SCP Files" =>
                /\ Len(NewJob.argsToPass) = 4
                /\ NewJob.argsToPass[3] = FALSE
                /\ NewJob.argsToPass[4] = (widgets.ip_entry = HostsAB)
                /\ NewJob.command = IF widgets.scp_direction_value = "Pull"
                                    THEN "wrap.pull" ELSE "wrap.push"]_vars

\* a pull of files from two hosts is running
C16_Witness ==
    \E j \in AliveWorkers :
        /\ workers[j].job.command = "wrap.pull"
        /\ workers[j].job.argsToPass = <<<<"c">>, DestText, FALSE, TRUE>>


(***************************************************************************)
(* Templates: failures of saving and of loading                            *)
(***************************************************************************)
SaveReported ==
    /\ Len(output_area') = Len(output_area) + 1
    /\ SubSeq(output_area', 1, Len(output_area)) = output_area

\* C17: when the destination of a template cannot be opened, save_template
\* reports it in the output area and returns: no exception leaves it, and
\* no field, button or job changes.
C17_SaveFailureContained ==
    [][save_template(FALSE) /\ "UnboundLocalError" \notin raised
          => /\ raised' = raised
             /\ SaveReported
             /\ widgets' = widgets
             /\ buttons' = buttons
             /\ workers' = workers /\ thread' = thread]_vars

\* every well-formed line of FieldLines has set its field
FieldsApplied(w) ==
    /\ w.ip_entry = <<"b">>
    /\ w.username_entry = <<"v">>
    /\ w.option_value = "Health Check"
    /\ w.wtf_entry = <<"f">>

\* C18: a line with an unknown field name is skipped and is not fatal: the
\* well-formed lines before and after it are all applied to their fields.
C18_UnknownFieldSkipped ==
    [][\A i \in Places :
          open_template(InsertAt(FieldLines, i, UnknownLine))
             => FieldsApplied(widgets')]_vars

\* C19: a file of four well-formed lines and one malformed line (no
\* separator, or blank), wherever the malformed line is, sets all four
\* fields and reports exactly one parse issue.
C19_OneMalformedLine ==
    [][\A i \in Places : \A x \in {NoSeparatorLine, BlankLine} :
          open_template(InsertAt(FieldLines, i, x))
             => /\ FieldsApplied(widgets')
                /\ Len(output_area') = Len(output_area) + 1]_vars

\* the place of the first line of a file that is not well-formed, 0 if none
FailingPlace(f) ==
    IF \E i \in 1..Len(f) : f[i] \in OddLines
    THEN CHOOSE i \in 1..Len(f) :
            f[i] \in OddLines /\ \A k \in 1..(i - 1) : f[k] \notin OddLines
    ELSE 0

\* the field named by a well-formed line holds the value of the line
HoldsLine(w, line) ==
    LET field == template_opts[line[1]]
    IN IF field \in ChoiceFields THEN w[field] = line[3]
       ELSE w[field] = <<line[3]>>

\* C20: when a line of a template fails, the fields set by the lines before
\* it keep the values loaded from the file.
C20_EarlierLinesKept ==
    [][\A f \in TemplateFiles :
          open_template(f) /\ FailingPlace(f) > 0
             => \A k \in 1..(FailingPlace(f) - 1) : HoldsLine(widgets', f[k])]_vars

C20_Witness ==
    /\ Len(output_area) = 1
    /\ [output_area[1] EXCEPT !.nl = FALSE] = LoadNotice("KeyError")
    /\ widgets.ip_entry = <<"b">>
    /\ widgets.username_entry = <<"v">>
    /\ widgets.option_value = "Health Check"
    /\ widgets.wtf_entry = Empty


\* C21: when the template cannot be read, open_template writes the failure
\* to the output area and returns; every field, the option shown, the
\* buttons and the job are as before.
C21_ReadFailureLeavesFields ==
    [][open_template_unreadable
          => /\ output_area' = write_to_output_area(output_area, OpenNotice)
             /\ widgets' = widgets
             /\ help_value' = help_value
             /\ buttons' = buttons
             /\ workers' = workers /\ thread' = thread
             /\ raised' = raised]_vars

C21_Witness ==
    /\ output_area = <<[OpenNotice EXCEPT !.nl = TRUE]>>
    /\ widgets = Filled
    /\ help_value = "Device Info"
    /\ raised = {}


(***************************************************************************)
(* Templates: what a save followed by a load gives back                    *)
(***************************************************************************)
\* the fields of a template
Record(w) == [k \in DOMAIN template_opts |-> w[template_opts[k]]]

\* the file on disk is what save_template writes for the fields as they are
JustSaved ==
    /\ ~SaveFails(widgets)
    /\ disk = Some(SavedLines(widgets, TemplateKeys))

LoadsSaved == JustSaved /\ open_template(disk[1])

\* C22: saving a record and loading the saved file gives back the record,
\* field by field, whatever the texts of its fields.
C22_RoundTrip == [][LoadsSaved => Record(widgets') = Record(widgets)]_vars

\* the value written on the line of a key of the saved file
StoredValue(file, key) ==
    LET i == CHOOSE i \in 1..Len(file) : file[i][1] = key
    IN SubSeq(file[i], 3, Len(file[i]) - 1)

\* C23: the secret is written obfuscated, not as it is, and loading the
\* saved file sets the secret field to exactly the secret saved.
C23_SecretRoundTrip ==
    /\ [][save_template(TRUE) /\ ~SaveFails(widgets)
             => LET stored == StoredValue(disk'[1], "Password")
                IN /\ widgets.password_entry # Empty
                         => stored # widgets.password_entry
                   /\ \A i \in 1..Len(stored) :
                         stored[i] \notin DOMAIN B64]_vars
    /\ [][LoadsSaved => widgets'.password_entry = widgets.password_entry]_vars

C23_Witness ==
    /\ JustSaved
    /\ StoredValue(disk[1], "Password") = <<"cA", "On46", "cw">>
    /\ widgets.password_entry = <<"p", Sep, "s">>
    /\ widgets.username_entry = <<"w">>

\* C24: a line is split at the first separator only: a value that holds
\* the separator is set whole.
C24_SplitAtFirstSeparator ==
    [][open_template(SeparatorInValue)
          => widgets'.username_entry = <<"u", Sep, "v">>]_vars


\* the six commit options of a record, in the order of CommitLines
CommitOptions(w) ==
    <<w.commit_check_button, w.commit_confirmed_button, w.commit_blank,
      w.commit_at, w.commit_comment, w.commit_synch>>

\* the fields after a load of the lines LinesOf(option), in whatever order
AfterLines(w, option) ==
    [w EXCEPT !.option_value = option,
              !.option_entry = <<"d">>,
              !.commit_check_button = IF option = "Set Command(s)" THEN 1 ELSE 0,
              !.commit_confirmed_button = IF option = "Set Command(s)" THEN @ ELSE 0,
              !.commit_blank = IF option = "Set Command(s)" THEN @ ELSE 0,
              !.commit_at = IF option = "Set Command(s)" THEN @ ELSE 0,
              !.commit_comment = IF option = "Set Command(s)" THEN @ ELSE 0,
              !.commit_synch = IF option = "Set Command(s)" THEN @ ELSE 0]

\* C25: the order of the lines of a well-formed file of distinct fields
\* does not matter: every order gives the same fields and the same option
\* shown.
C25_LineOrderFree ==
    [][\A option \in {"Set Command(s)", "Health Check"} :
          \A f \in Reordered(LinesOf(option)) :
             open_template(f)
                => /\ widgets' = AfterLines(widgets, option)
                   /\ help_value' = option
                   /\ output_area' = output_area]_vars

C25_Witness ==
    /\ widgets.option_value = "Health Check"
    /\ help_value = "Health Check"
    /\ widgets.option_entry = <<"d">>
    /\ CommitOptions(widgets) = <<0, 0, 0, 0, 0, 0>>
    /\ output_area = <<>>

\* the forms the operator may have after a save, before the load
Changed(w) ==
    {[w EXCEPT !.port_entry = <<"2", "3">>],
     [w EXCEPT !.conn_timeout_entry = <<"9">>],
     [w EXCEPT !.username_entry = <<"w">>],
     [w EXCEPT !.ip_entry = HostsAB]}

\* C26: every parameter of a job is saved and loaded: after a save, any
\* change of fields and a load of the saved file, Run Script starts a job
\* with the parameters it would have had just before the save.
C26_AllParametersPersist ==
    [][/\ save_template(TRUE) /\ ~SaveFails(widgets)
       /\ input_validation(widgets) /\ ~GoRaises(widgets)
          => \A w \in Changed(widgets) :
                JobOf(Loaded(w, disk'[1]).w) = JobOf(widgets)]_vars

\* C29: a load of a well-formed file whose Option is Set Command(s) leaves
\* the six commit options as the file gives them, wherever the Option line
\* stands; opt_select deselects them only for another option.
C29_CommitOptionsLoaded ==
    /\ [][\A f \in CommitFiles :
             open_template(f)
                => /\ CommitOptions(widgets') = <<0, 1, 0, 0, 1, 1>>
                   /\ widgets'.option_value = "Set Command(s)"]_vars
    /\ [][opt_select("Set Command(s)")
             => CommitOptions(widgets') = CommitOptions(widgets)]_vars

C29_Witness ==
    /\ widgets.option_value = "Set Command(s)"
    /\ CommitOptions(widgets) = <<0, 1, 0, 0, 1, 1>>
    /\ help_value = "Set Command(s)"


(***************************************************************************)
(* The destination of the output, the buttons, the end of the process      *)
(***************************************************************************)
\* C28: go() passes the destination to the worker only if Write to file is
\* checked at the start, and the empty destination otherwise, whatever the
\* destination entry holds.
C28_DestinationOnlyIfChecked ==
    [][JobStarts
          => NewJob.write_to_file =
                IF widgets.wtf_checkbox # 0 THEN widgets.wtf_entry ELSE Empty]_vars

C28_Witness ==
    /\ Len(workers) = 1
    /\ workers[1].job.write_to_file = Empty
    /\ widgets.wtf_checkbox = 0
    /\ widgets.wtf_entry = PathText


\* the step of get_output() that wraps up after it has seen the worker dead
ObservedDead == pc = "finish" /\ pc' = "idle" /\ ~isAlive(workers[thread])

C27_QuitNeverWaits ==
    /\ [][JobStarts => workers'[Len(workers')].daemon]_vars
    /\ [][Running /\ process' # process => process' = "exited"]_vars
    /\ [](process # "exiting")

C27_Witness ==
    /\ process = "exited"
    /\ Len(workers) = 1
    /\ workers[1].phase = "inflight"
    /\ stop_button = "normal"


(***************************************************************************)
(* The output area during a run, and the markers                           *)
(***************************************************************************)
\* a job has been started and get_output() has not yet wrapped up
RunningJob == stop_button = "normal"

IsPrefix(a, b) == Len(a) <= Len(b) /\ SubSeq(b, 1, Len(a)) = a

\* C31: while a job is running no action of the operator removes text from
\* the output area: what has been rendered stays until the completion
\* marker is written.
C31_AppendOnlyWhileRunning ==
    [][RunningJob => IsPrefix(output_area, output_area')]_vars


\* the markers among the first n blocks of the output area
Markers(area, n, kind) ==
    Cardinality({i \in 1..n : area[i].kind = kind})

\* C32: start and completion markers are paired: when go() writes the
\* start marker it also starts a worker and leaves the controller running,
\* and no completion marker is written without a start marker before it
\* that has none yet.  (That the marker of a job whose worker ends is then
\* written, once and after its last chunk, is the eventual part.)
C32_MarkersPaired ==
    /\ [][GoPasses => JobStarts /\ stop_button' = "normal" /\ pc' # "idle"]_vars
    /\ [](\A n \in 1..Len(output_area) :
             Markers(output_area, n, "done") <= Markers(output_area, n, "start"))


\* go() is called and input_validation() returns False
RejectedRun == \E e \in EntryPoints : go(e) /\ ~input_validation(widgets)

\* C33: a rejected Run changes nothing: nothing is written to the output
\* area, no worker is created, no tick is scheduled, and self.thread, the
\* queue, every field and the four buttons are as before.
C33_RejectedRunChangesNothing ==
    [][RejectedRun
          => /\ output_area' = output_area
             /\ workers' = workers /\ thread' = thread
             /\ pending' = pending /\ pc' = pc
             /\ stdout_queue' = stdout_queue
             /\ widgets' = widgets
             /\ buttons' = buttons]_vars

C33_Witness ==
    /\ dialog = "Timeout"
    /\ output_area = <<>>
    /\ workers = <<>> /\ thread = 0
    /\ pending = 0 /\ pc = "idle"
    /\ go_button = "normal" /\ stop_button = "disabled"


(***************************************************************************)
(* The commit options and the option selected                              *)
(***************************************************************************)
\* C34: Check Only is never checked together with any of Confirmed
\* Minutes, Blank, At Time, Synchronize or Comment, after any clicks of the
\* check boxes from all unchecked.
C34_CheckOnlyExclusive ==
    [](widgets.commit_check_button # 0
          => /\ widgets.commit_confirmed_button = 0
             /\ widgets.commit_blank = 0
             /\ widgets.commit_at = 0
             /\ widgets.commit_synch = 0
             /\ widgets.commit_comment = 0)

C34_Witness ==
    /\ widgets.option_value = "Set Command(s)"
    /\ CommitOptions(widgets) = <<1, 0, 0, 0, 0, 0>>
    /\ widgets.username_entry = <<"w">>

\* C35: no two of Confirmed Minutes, Blank and At Time are checked at the
\* same time, after any clicks of the check boxes from all unchecked.
C35_PairwiseExclusive ==
    [](widgets.commit_confirmed_button + widgets.commit_blank
          + widgets.commit_at <= 1)


\* C36: whenever the option selected is not Set Command(s), the six commit
\* check boxes are unchecked, in every state reached by selections of the
\* option, clicks, clear_fields and loads of templates, aborted ones
\* included.
C36_CommitOptionsOnlyForSet ==
    [](widgets.option_value # "Set Command(s)"
          => CommitOptions(widgets) = <<0, 0, 0, 0, 0, 0>>)

\* C37: the option selected is always one of the nine operations and the
\* help text shown is the one of that option; opt_select() raises nothing.
C37_OptionSupported ==
    /\ [](widgets.option_value \in DOMAIN option_conversion)
    /\ [](help_value = widgets.option_value)
    /\ [][raised' = raised]_vars

====
